---------------------------- MODULE Spec2Model ----------------------------
(***************************************************************************)
(* Model of the gmail-cleaner repository:                                  *)
(*   - app/services/gmail/helpers.py     validate_unsafe_url,              *)
(*                                       get_unsubscribe_from_headers      *)
(*   - app/services/gmail/unsubscribe.py unsubscribe_single                *)
(*   - gmail_api_unsubscribe.py          scan_emails_api, unsubscribe_single,*)
(*                                       RequestHandler                    *)
(* Python values are modelled as follows: a str built by concatenation is  *)
(* the sequence of its pieces, a dict is a record together with the set of *)
(* keys it holds, an exception is a value carried in the outcome of the    *)
(* call that raised it.                                                    *)
(***************************************************************************)
EXTENDS Integers, Sequences, FiniteSets, TLC

VARIABLES
    invocation,     \* the unsubscribe/validator call being served: function, domain, link
    outcome,        \* what that call gave back: a returned value or a raised exception
    trace,          \* the calls it made to the resolver and to the HTTP client, in order
    scan_results,   \* gmail_api_unsubscribe.py: global scan_results
    scan_status,    \* gmail_api_unsubscribe.py: global scan_status
    pc,             \* per scan thread: position in scan_emails_api
    messages,       \* per scan thread: local messages (what the list call returned)
    batch_start,    \* per scan thread: local batch_start of the batch loop
    processed,      \* per scan thread: local processed[0]
    senders_data,   \* per scan thread: local senders_data, in insertion order
    sorted_senders, \* per scan thread: the entries of lines 262-271, in the order of line 260
    appended,       \* per scan thread: how many of them the loop of line 262 has appended
    progress_log,   \* per scan thread: the progress values it has written, in order
    response,       \* the HTTP response of the last GET /status or GET /results
    given_headers,  \* the header list an extractor is called with
    extracted       \* the extractor called and what it returned

unsubVars == <<invocation, outcome, trace>>
scanVars == <<scan_results, scan_status, pc, messages, batch_start, processed,
              senders_data, sorted_senders, appended, progress_log, response>>
headerVars == <<given_headers, extracted>>
vars == <<invocation, outcome, trace, scan_results, scan_status, pc, messages,
          batch_start, processed, senders_data, sorted_senders, appended,
          progress_log, response, given_headers, extracted>>

(***************************************************************************)
(* Bounds of the model.                                                    *)
(***************************************************************************)
MaxAddrs == 2       \* address records one resolver answer holds at most
MaxRuns == 2        \* scan threads started by POST /scan
MaxFullBatches == 1 \* full batches a message list holds at most
MaxTail == 2        \* messages beyond the last full batch at most
MaxHeaders == 3     \* headers of a header list given to an extractor at most

None == "None"

(***************************************************************************)
(* Links.  A link is absent (Python None) or a text                        *)
(*     scheme ":" "//" host path                                           *)
(* of which any part may be empty; parses is FALSE for a text urlsplit     *)
(* refuses (unbalanced brackets in the netloc).                            *)
(***************************************************************************)
RawSchemes == {"", "http", "https", "HTTP", "mailto", "MAILTO", "ftp", "javascript"}
Hosts == {"", "lists.shop.example"}
Paths == {"", "/unsub"}

NoLink == [absent |-> TRUE, scheme |-> "", host |-> "", path |-> "", parses |-> TRUE]

Links ==
    {NoLink} \cup [absent : {FALSE}, scheme : RawSchemes, host : Hosts,
                   path : Paths, parses : BOOLEAN]

Domains == {"shop.example", "news.example"}

\* str.lower() on the scheme texts of the model
Lower(s) ==
    CASE s = "HTTP" -> "http"
      [] s = "MAILTO" -> "mailto"
      [] OTHER -> s

\* bool(link): None and "" are falsy
Truthy(link) ==
    /\ ~link.absent
    /\ ~(link.scheme = "" /\ link.host = "" /\ link.path = "")

\* link.startswith("mailto:"), case-sensitive
StartsWithMailto(link) == link.scheme = "mailto"

\* urllib.parse.urlparse: raises ValueError on a text it cannot split; lower-cases
\* the scheme; hostname is None (here "") when the netloc holds none
urlparse(url) ==
    IF ~url.parses
    THEN [raised |-> TRUE, scheme |-> "", hostname |-> ""]
    ELSE [raised |-> FALSE, scheme |-> Lower(url.scheme), hostname |-> url.host]

(***************************************************************************)
(* Addresses and resolver answers.                                         *)
(***************************************************************************)
Addrs == {"93.184.216.34", "2606:4700::1111", "10.0.0.5", "127.0.0.1",
          "169.254.169.254", "0.0.0.0"}

\* ipaddress.ip_address(ip_str) and the four properties the validator reads
ip_address(ip_str) ==
    CASE ip_str = "10.0.0.5" ->
            [valid |-> TRUE, is_private |-> TRUE, is_loopback |-> FALSE,
             is_link_local |-> FALSE, is_unspecified |-> FALSE]
      [] ip_str = "127.0.0.1" ->
            [valid |-> TRUE, is_private |-> TRUE, is_loopback |-> TRUE,
             is_link_local |-> FALSE, is_unspecified |-> FALSE]
      [] ip_str = "169.254.169.254" ->
            [valid |-> TRUE, is_private |-> TRUE, is_loopback |-> FALSE,
             is_link_local |-> TRUE, is_unspecified |-> FALSE]
      [] ip_str = "0.0.0.0" ->
            [valid |-> TRUE, is_private |-> TRUE, is_loopback |-> FALSE,
             is_link_local |-> FALSE, is_unspecified |-> TRUE]
      [] OTHER ->
            [valid |-> TRUE, is_private |-> FALSE, is_loopback |-> FALSE,
             is_link_local |-> FALSE, is_unspecified |-> FALSE]

SeqsUpTo(S, n) == UNION {[1..k -> S] : k \in 0..n}

\* what socket.getaddrinfo may do: raise gaierror, or return address records
NoAnswer == [gaierror |-> FALSE, addrs |-> <<>>]
DnsAnswers ==
    {[gaierror |-> TRUE, addrs |-> <<>>]}
        \cup {[gaierror |-> FALSE, addrs |-> a] : a \in SeqsUpTo(Addrs, MaxAddrs)}

(***************************************************************************)
(* Outcomes of a call: a returned value or a raised exception.             *)
(***************************************************************************)
NoExc == [type |-> "", text |-> <<>>]
Exc(type, text) == [type |-> type, text |-> text]

\* a dict: the keys it holds and their values (fields of keys it lacks are unused)
NoDict == [keys |-> {}, success |-> FALSE, message |-> <<>>, type |-> "",
           domain |-> "", status |-> <<>>]

NoOutcome == [raised |-> FALSE, exc |-> NoExc, url |-> NoLink, value |-> NoDict]
ReturnUrl(url) == [raised |-> FALSE, exc |-> NoExc, url |-> url, value |-> NoDict]
ReturnDict(d) == [raised |-> FALSE, exc |-> NoExc, url |-> NoLink, value |-> d]
Raise(type, text) ==
    [raised |-> TRUE, exc |-> Exc(type, text), url |-> NoLink, value |-> NoDict]

(***************************************************************************)
(* Events of the trace: a resolver lookup of host answered by dns, the     *)
(* validator's verdict on url (ok), an HTTP request to url answered by http.*)
(***************************************************************************)
NoHttp == [exc |-> "", status |-> 0, text |-> "", confirms |-> FALSE]

Event(op, url, host, dns, http, ok) ==
    [op |-> op, url |-> url, host |-> host, dns |-> dns, http |-> http, ok |-> ok]

LookupEvent(host, dns) == Event("getaddrinfo", NoLink, host, dns, NoHttp, ~dns.gaierror)
VerdictEvent(url, ok) == Event("validate_unsafe_url", url, "", NoAnswer, NoHttp, ok)
HttpEvent(method, url, http) == Event(method, url, "", NoAnswer, http, http.exc = "")

\* the data of the request unsubscribe.py builds for a method: the POST of lines
\* 40-48 carries the one-click body, the GET of lines 70-73 carries none
OneClickBody == "List-Unsubscribe=One-Click"
RequestBody(method) == IF method = "POST" THEN OneClickBody ELSE None

(***************************************************************************)
(* helpers.py: validate_unsafe_url                                         *)
(***************************************************************************)
MsgInvalidFormat == "Invalid URL format"
MsgDisallowedScheme == "Invalid URL scheme. Only HTTP and HTTPS are allowed."
MsgNoHostname == "Invalid URL: No hostname found."
MsgRestrictedAddress == "Invalid or restricted IP address: "
MsgNoValidAddress == "Could not resolve any valid IP addresses for hostname: "
MsgResolutionFailure == "Could not resolve hostname: "

\* the condition of lines 65-70, together with ip_address refusing the text
IsRestricted(ip_str) ==
    LET ip == ip_address(ip_str)
    IN  \/ ~ip.valid
        \/ ip.is_private
        \/ ip.is_loopback
        \/ ip.is_link_local
        \/ ip.is_unspecified

\* mutant of ValidateAddrInfos: only the first address record is checked
ValidateAddrInfos_FirstOnly(addr_infos, validated_ips) ==
    IF addr_infos = <<>>
    THEN [raised |-> FALSE, text |-> <<>>, validated_ips |-> validated_ips]
    ELSE IF IsRestricted(Head(addr_infos))
    THEN [raised |-> TRUE, text |-> <<MsgRestrictedAddress, Head(addr_infos)>>,
          validated_ips |-> validated_ips]
    ELSE [raised |-> FALSE, text |-> <<>>,
          validated_ips |-> validated_ips \o addr_infos]

\* the loop of lines 57-76 over what getaddrinfo returned: raises at the first
\* address that is invalid or restricted, else collects every address
RECURSIVE ValidateAddrInfos(_, _)
ValidateAddrInfos(addr_infos, validated_ips) ==
    IF addr_infos = <<>>
    THEN [raised |-> FALSE, text |-> <<>>, validated_ips |-> validated_ips]
    ELSE LET ip_str == Head(addr_infos)
         IN  IF IsRestricted(ip_str)
             THEN [raised |-> TRUE, text |-> <<MsgRestrictedAddress, ip_str>>,
                   validated_ips |-> validated_ips]
             ELSE ValidateAddrInfos(Tail(addr_infos), Append(validated_ips, ip_str))

\* mutant of ResolveAndCheck: an answer without addresses lets the URL through
ResolveAndCheck_EmptyPasses(url, hostname, dns) ==
    LET lookup == <<LookupEvent(hostname, dns)>>
    IN  IF dns.gaierror
        THEN [result |-> Raise("ValueError", <<MsgResolutionFailure, hostname>>),
              events |-> lookup]
        ELSE LET checked == ValidateAddrInfos(dns.addrs, <<>>)
             IN  IF checked.raised
                 THEN [result |-> Raise("ValueError", checked.text), events |-> lookup]
                 ELSE [result |-> ReturnUrl(url), events |-> lookup]

\* lines 50-87: resolve the hostname and check every address
ResolveAndCheck(url, hostname, dns) ==
    LET lookup == <<LookupEvent(hostname, dns)>>
    IN  IF dns.gaierror
        THEN [result |-> Raise("ValueError", <<MsgResolutionFailure, hostname>>),
              events |-> lookup]
        ELSE LET checked == ValidateAddrInfos(dns.addrs, <<>>)
             IN  IF checked.raised
                 THEN [result |-> Raise("ValueError", checked.text), events |-> lookup]
                 ELSE IF checked.validated_ips = <<>>
                 THEN [result |-> Raise("ValueError", <<MsgNoValidAddress, hostname>>),
                       events |-> lookup]
                 ELSE [result |-> ReturnUrl(url), events |-> lookup]

\* mutant of validate_unsafe_url: the hostname is resolved before the scheme is looked at
validate_unsafe_url_ResolveFirst(url, dns) ==
    LET parsed == urlparse(url)
    IN  IF parsed.raised
        THEN [result |-> Raise("ValueError", <<MsgInvalidFormat>>), events |-> <<>>]
        ELSE IF parsed.hostname = ""
        THEN [result |-> Raise("ValueError", <<MsgNoHostname>>), events |-> <<>>]
        ELSE LET r == ResolveAndCheck(url, parsed.hostname, dns)
             IN  IF ~r.result.raised /\ parsed.scheme \notin {"http", "https"}
                 THEN [result |-> Raise("ValueError", <<MsgDisallowedScheme>>),
                       events |-> r.events]
                 ELSE r

\* validate_unsafe_url(url), dns being what the resolver answers if it is asked
validate_unsafe_url(url, dns) ==
    LET parsed == urlparse(url)
    IN  IF parsed.raised
        THEN [result |-> Raise("ValueError", <<MsgInvalidFormat>>), events |-> <<>>]
        ELSE IF parsed.scheme \notin {"http", "https"}
        THEN [result |-> Raise("ValueError", <<MsgDisallowedScheme>>), events |-> <<>>]
        ELSE IF parsed.hostname = ""
        THEN [result |-> Raise("ValueError", <<MsgNoHostname>>), events |-> <<>>]
        ELSE ResolveAndCheck(url, parsed.hostname, dns)

(***************************************************************************)
(* The HTTP client (urllib.request.urlopen): it returns a response with a  *)
(* status, or raises.  confirms: the body holds one of the success words   *)
(* the gmail_api_unsubscribe.py variant looks for.                         *)
(***************************************************************************)
TextHttp404 == "HTTP Error 404: Not Found"
TextHttp303 == "HTTP Error 303: See Other"
TextHttp301 == "HTTP Error 301: Moved Permanently"
TextUrlError == "<urlopen error [Errno 111] Connection refused>"
TextTimeout == "timed out"
TextLong == "an error text of 120 characters"

ResponseStatuses == {200, 201, 202, 203, 204, 301, 302}

HttpResponse(status, confirms) ==
    [exc |-> "", status |-> status, text |-> "", confirms |-> confirms]
HttpRaise(exc, status, text) ==
    [exc |-> exc, status |-> status, text |-> text, confirms |-> FALSE]

HttpOutcomes ==
    {HttpResponse(st, FALSE) : st \in ResponseStatuses}
        \cup {HttpResponse(200, TRUE),
              HttpRaise("HTTPError", 404, TextHttp404),
              HttpRaise("HTTPError", 303, TextHttp303),
              HttpRaise("HTTPError", 301, TextHttp301),
              HttpRaise("URLError", 0, TextLong),
              HttpRaise("URLError", 0, TextUrlError),
              HttpRaise("TimeoutError", 0, TextTimeout),
              HttpRaise("Exception", 0, TextLong)}

\* str(n) for the statuses of the model
StatusText(n) ==
    CASE n = 200 -> "200" [] n = 201 -> "201" [] n = 202 -> "202"
      [] n = 203 -> "203" [] n = 204 -> "204" [] n = 301 -> "301"
      [] n = 302 -> "302" [] n = 303 -> "303" [] n = 404 -> "404"
      [] OTHER -> "0"

\* text[:100] for the error texts of the model
Prefix100(text) ==
    IF text = TextLong THEN "the first 100 characters of it" ELSE text

\* text[:30] for the error texts of the model
Prefix30(text) ==
    CASE text = TextLong -> "the first 30 characters of it"
      [] text = TextUrlError -> "<urlopen error [Errno 111] Con"
      [] OTHER -> text

(***************************************************************************)
(* unsubscribe.py: unsubscribe_single                                      *)
(***************************************************************************)
\* the POST taken as done on 200 alone
SuccessStatuses_Only200 == {200}

SuccessStatuses == {200, 201, 202, 204}
GetSuccessStatuses == {200, 201, 202, 204, 301, 302}
TransportErrors == {"URLError", "HTTPError", "TimeoutError"}

\* {"success": s, "message": m}
Dict2(s, m) ==
    [keys |-> {"success", "message"}, success |-> s, message |-> m, type |-> "",
     domain |-> "", status |-> <<>>]
\* {"success": s, "message": m, "type": t}
DictType(s, m, t) ==
    [keys |-> {"success", "message", "type"}, success |-> s, message |-> m,
     type |-> t, domain |-> "", status |-> <<>>]
\* {"success": s, "message": m, "domain": d}
DictDomain(s, m, d) ==
    [keys |-> {"success", "message", "domain"}, success |-> s, message |-> m,
     type |-> "", domain |-> d, status |-> <<>>]

\* mutant of OuterHandler: the exception leaves the function
OuterHandler_Reraise(exc, events) ==
    [result |-> Raise(exc.type, <<exc.text>>), events |-> events]

\* lines 90-91: the outer handler, reached by an exception no inner handler takes
OuterHandler(exc, events) ==
    [result |-> ReturnDict(Dict2(FALSE, <<Prefix100(exc.text)>>)), events |-> events]

\* lines 69-88: the GET fallback, events being the calls made so far
GetFallback(domain, link, get, events) ==
    LET sent == Append(events, HttpEvent("GET", link, get))
    IN  IF get.exc = ""
        THEN IF get.status \in GetSuccessStatuses
             THEN [result |-> ReturnDict(DictDomain(TRUE,
                                <<"Unsubscribed (confirmation may be needed)">>, domain)),
                   events |-> sent]
             ELSE [result |-> ReturnDict(Dict2(FALSE,
                                <<"Server returned status ", StatusText(get.status)>>)),
                   events |-> sent]
        ELSE IF get.exc \in TransportErrors
        THEN [result |-> ReturnDict(Dict2(FALSE, <<"Failed to unsubscribe: ", get.text>>)),
              events |-> sent]
        ELSE OuterHandler(Exc(get.exc, get.text), sent)

\* the POST whose unexpected exception is left to the outer handler
PostThenGet_NoFallbackOnException(domain, link, post, get, events) ==
    LET sent == Append(events, HttpEvent("POST", link, post))
    IN  IF post.exc = "" /\ post.status \in SuccessStatuses
        THEN [result |-> ReturnDict(DictDomain(TRUE, <<"Unsubscribed successfully">>, domain)),
              events |-> sent]
        ELSE IF post.exc \notin TransportErrors \cup {""}
        THEN OuterHandler(Exc(post.exc, post.text), sent)
        ELSE GetFallback(domain, link, get, sent)

\* lines 39-88: POST first; every POST that does not end in a success status,
\* raised or not, falls through to the GET
PostThenGet(domain, link, post, get, events) ==
    LET sent == Append(events, HttpEvent("POST", link, post))
    IN  IF post.exc = "" /\ post.status \in SuccessStatuses
        THEN [result |-> ReturnDict(DictDomain(TRUE, <<"Unsubscribed successfully">>, domain)),
              events |-> sent]
        ELSE GetFallback(domain, link, get, sent)

\* mutant of ValidatorRejected: the ValueError is left to the outer handler
ValidatorRejected_Outer(link, v) ==
    [result |-> ReturnDict(Dict2(FALSE, v.result.exc.text)),
     events |-> Append(v.events, VerdictEvent(link, FALSE))]

\* lines 33-34: the validator raised ValueError
ValidatorRejected(link, v) ==
    [result |-> ReturnDict(Dict2(FALSE, <<"Security Error: ">> \o v.result.exc.text)),
     events |-> Append(v.events, VerdictEvent(link, FALSE))]

\* lines 29-91: validate, then request
ValidateThenRequest(domain, link, dns, post, get) ==
    LET v == validate_unsafe_url(link, dns)
    IN  IF v.result.raised
        THEN ValidatorRejected(link, v)
        ELSE PostThenGet(domain, v.result.url, post, get,
                         Append(v.events, VerdictEvent(link, TRUE)))

\* mutant of unsubscribe_single: a mailto link is treated like any other link
unsubscribe_single_NoMailto(domain, link, dns, post, get) ==
    IF ~Truthy(link)
    THEN [result |-> ReturnDict(Dict2(FALSE, <<"No unsubscribe link provided">>)),
          events |-> <<>>]
    ELSE ValidateThenRequest(domain, link, dns, post, get)

\* unsubscribe_single(domain, link); dns, post and get are what the resolver and
\* the HTTP client answer if they are asked
unsubscribe_single(domain, link, dns, post, get) ==
    IF ~Truthy(link)
    THEN [result |-> ReturnDict(Dict2(FALSE, <<"No unsubscribe link provided">>)),
          events |-> <<>>]
    ELSE IF StartsWithMailto(link)
    THEN [result |-> ReturnDict(DictType(FALSE,
                        <<"Email-based unsubscribe - open in email client">>, "mailto")),
          events |-> <<>>]
    ELSE ValidateThenRequest(domain, link, dns, post, get)

(***************************************************************************)
(* gmail_api_unsubscribe.py: unsubscribe_single, the function behind       *)
(* POST /unsubscribe-one                                                   *)
(***************************************************************************)
RedirectCodes == {301, 302, 303, 307, 308}
\* schemes urlopen has a handler for; only http and https go to the HTTP client
OpenerSchemes == {"http", "https", "ftp"}

\* {"success": s, "status": st}
DictStatus(s, st) ==
    [keys |-> {"success", "status"}, success |-> s, message |-> <<>>, type |-> "",
     domain |-> "", status |-> st]

\* lines 294-299: the response was read
ApiReadResponse(http) ==
    IF http.confirms
    THEN ReturnDict(DictStatus(TRUE, <<"Unsubscribed!">>))
    ELSE ReturnDict(DictStatus(TRUE, <<"Link visited">>))

\* lines 301-306: the handlers
ApiHandlers(http) ==
    IF http.exc = "HTTPError"
    THEN IF http.status \in RedirectCodes
         THEN ReturnDict(DictStatus(TRUE, <<"Redirected">>))
         ELSE ReturnDict(DictStatus(FALSE, <<"HTTP ", StatusText(http.status)>>))
    ELSE ReturnDict(DictStatus(FALSE, <<Prefix30(http.text)>>))

\* unsubscribe_single(domain, link) of gmail_api_unsubscribe.py: no validation,
\* one request; http is what the opener answers if it is asked
api_unsubscribe_single(domain, link, http) ==
    IF link.absent \/ link.scheme = ""
    THEN \* Request(link) raises ValueError: nothing is sent
         [result |-> ReturnDict(DictStatus(FALSE, <<"unknown url type">>)), events |-> <<>>]
    ELSE IF Lower(link.scheme) \notin OpenerSchemes
    THEN \* urlopen raises URLError: no handler for the scheme
         [result |-> ReturnDict(DictStatus(FALSE, <<"<urlopen error unknown url type">>)),
          events |-> <<>>]
    ELSE IF ~link.parses
    THEN \* the connection finds no host to send to
         [result |-> ReturnDict(DictStatus(FALSE, <<Prefix30(TextUrlError)>>)),
          events |-> <<>>]
    ELSE LET method == IF Lower(link.scheme) = "ftp" THEN "FTP" ELSE "GET"
             sent == <<HttpEvent(method, link, http)>>
         IN  IF http.exc = ""
             THEN [result |-> ApiReadResponse(http), events |-> sent]
             ELSE [result |-> ApiHandlers(http), events |-> sent]

(***************************************************************************)
(* gmail_api_unsubscribe.py: messages and the header extractors of the     *)
(* scan.  A header value is a text; the tables below give what the regular *)
(* expressions of the extractors find in each text of the model.           *)
(***************************************************************************)
Header(name, value) == [name |-> name, value |-> value]

\* name.lower() for the header names of the model
LowerName(name) ==
    CASE name = "From" -> "from"
      [] name = "FROM" -> "from"
      [] name = "Subject" -> "subject"
      [] name = "List-Unsubscribe" -> "list-unsubscribe"
      [] name = "LIST-UNSUBSCRIBE" -> "list-unsubscribe"
      [] name = "List-Unsubscribe-Post" -> "list-unsubscribe-post"
      [] OTHER -> name

UnsubShop1 == "<https://shop.example/u/1>"
UnsubShop2 == "<mailto:leave@shop.example>, <https://shop.example/u/2>"
UnsubNews == "<http://news.example/off>"
UnsubMailto == "<mailto:leave@news.example>"
\* a value without a URI in angle brackets
UnsubBare == "https://shop.example/u/1"

\* the texts in angle brackets of a list-unsubscribe value, in order
AngleUris(value) ==
    CASE value = UnsubShop1 -> <<"https://shop.example/u/1">>
      [] value = UnsubShop2 -> <<"mailto:leave@shop.example", "https://shop.example/u/2">>
      [] value = UnsubNews -> <<"http://news.example/off">>
      [] value = UnsubMailto -> <<"mailto:leave@news.example">>
      [] OTHER -> <<>>

HttpUris == {"https://shop.example/u/1", "https://shop.example/u/2",
             "http://news.example/off"}
MailtoUris == {"mailto:leave@shop.example", "mailto:leave@news.example"}

IsHttpUri(u) == u \in HttpUris
IsMailtoUri(u) == u \in MailtoUris

\* re.findall(r'<(https?://[^>]+)>', value)
FindHttp(value) == SelectSeq(AngleUris(value), IsHttpUri)
\* re.findall(r'<(mailto:[^>]+)>', value)
FindMailto(value) == SelectSeq(AngleUris(value), IsMailtoUri)

\* text.startswith('http')
StartsWithHttp(text) == text \in HttpUris

FromShop == "Shop Deals <deals@Shop.Example>"
FromShopAlt == "deals@shop.example"
FromNews == "\"News\" <letters@news.example>"
FromNobody == "undisclosed sender"
FromBracketOnly == "<deals@shop.example>"
FromPadded == "  \"Jane Doe\"  < jane@Example.com >"
FromSeveralAt == "a@b@Shop.Example"
FromEmpty == ""

\* re.search(r'[\w.-]+@[\w.-]+', from_value).group(), "" when nothing matches
EmailToken(from_value) ==
    CASE from_value = FromShop -> "deals@Shop.Example"
      [] from_value = FromShopAlt -> "deals@shop.example"
      [] from_value = FromNews -> "letters@news.example"
      [] from_value = FromBracketOnly -> "deals@shop.example"
      [] from_value = FromPadded -> "jane@Example.com"
      [] from_value = FromSeveralAt -> "a@b"
      [] OTHER -> ""

\* email.split('@')[1].lower()
DomainOfEmail(email) ==
    CASE email = "deals@Shop.Example" -> "shop.example"
      [] email = "deals@shop.example" -> "shop.example"
      [] email = "letters@news.example" -> "news.example"
      [] email = "jane@Example.com" -> "example.com"
      [] email = "a@b" -> "b"
      [] OTHER -> ""

SubjectLong == "a subject of 75 characters"
\* value[:60]
Prefix60(value) ==
    IF value = SubjectLong THEN "its first 60 characters" ELSE value

\* get_unsubscribe_from_headers(headers), lines 132-145; None when nothing is found
RECURSIVE get_unsubscribe_from_headers(_)
get_unsubscribe_from_headers(headers) ==
    IF headers = <<>>
    THEN None
    ELSE LET header == Head(headers)
         IN  IF LowerName(header.name) = "list-unsubscribe"
             THEN IF FindHttp(header.value) # <<>>
                  THEN FindHttp(header.value)[1]
                  ELSE IF FindMailto(header.value) # <<>>
                  THEN FindMailto(header.value)[1]
                  ELSE get_unsubscribe_from_headers(Tail(headers))
             ELSE get_unsubscribe_from_headers(Tail(headers))

\* get_sender_info(headers), lines 148-159: (from_value, domain)
RECURSIVE get_sender_info(_)
get_sender_info(headers) ==
    IF headers = <<>>
    THEN <<"", "unknown">>
    ELSE LET header == Head(headers)
         IN  IF LowerName(header.name) = "from" /\ EmailToken(header.value) # ""
             THEN <<header.value, DomainOfEmail(EmailToken(header.value))>>
             ELSE get_sender_info(Tail(headers))

\* get_subject(headers), lines 162-167
RECURSIVE get_subject(_)
get_subject(headers) ==
    IF headers = <<>>
    THEN ""
    ELSE IF LowerName(Head(headers).name) = "subject"
    THEN Prefix60(Head(headers).value)
    ELSE get_subject(Tail(headers))

(***************************************************************************)
(* helpers.py: get_unsubscribe_from_headers, which returns (link, mode)    *)
(***************************************************************************)
PostValue == "List-Unsubscribe=One-Click"

\* lines 150-151: some header of the list is named list-unsubscribe-post
HasPostHeader(headers) ==
    \E i \in 1..Len(headers) : LowerName(headers[i].name) = "list-unsubscribe-post"

\* lines 145-165: the outer loop from the headers rest on, headers being the whole list
RECURSIVE helpers_scan_headers(_, _)
helpers_scan_headers(rest, headers) ==
    IF rest = <<>>
    THEN <<None, None>>
    ELSE LET header == Head(rest)
             value == header.value
         IN  IF LowerName(header.name) = "list-unsubscribe"
             THEN IF HasPostHeader(headers) /\ FindHttp(value) # <<>>
                  THEN <<FindHttp(value)[1], "one-click">>
                  ELSE IF FindHttp(value) # <<>>
                  THEN <<FindHttp(value)[1], "manual">>
                  ELSE IF FindMailto(value) # <<>>
                  THEN <<FindMailto(value)[1], "manual">>
                  ELSE helpers_scan_headers(Tail(rest), headers)
             ELSE helpers_scan_headers(Tail(rest), headers)

\* helpers.py get_unsubscribe_from_headers(headers), lines 143-167
helpers_get_unsubscribe_from_headers(headers) == helpers_scan_headers(headers, headers)

(***************************************************************************)
(* helpers.py: get_sender_info, which returns (name, email)                *)
(***************************************************************************)
\* re.search(r"([^<]*)<([^>]+)>", from_value): the two groups, <<>> when nothing
\* matches
AngleMatch(from_value) ==
    CASE from_value = FromShop -> <<"Shop Deals ", "deals@Shop.Example">>
      [] from_value = FromNews -> <<"\"News\" ", "letters@news.example">>
      [] from_value = FromBracketOnly -> <<"", "deals@shop.example">>
      [] from_value = FromPadded -> <<"  \"Jane Doe\"  ", " jane@Example.com ">>
      [] OTHER -> <<>>

\* text.strip()
Strip(text) ==
    CASE text = "Shop Deals " -> "Shop Deals"
      [] text = "\"News\" " -> "\"News\""
      [] text = "  \"Jane Doe\"  " -> "\"Jane Doe\""
      [] text = " jane@Example.com " -> "jane@Example.com"
      [] OTHER -> text

\* text.strip('"')
StripQuotes(text) ==
    CASE text = "\"News\"" -> "News"
      [] text = "\"Jane Doe\"" -> "Jane Doe"
      [] OTHER -> text

\* the function without the strip('"') of line 177
RECURSIVE helpers_get_sender_info_KeepQuotes(_)
helpers_get_sender_info_KeepQuotes(headers) ==
    IF headers = <<>>
    THEN <<"Unknown", "unknown">>
    ELSE LET header == Head(headers)
             from_value == header.value
             match == AngleMatch(from_value)
         IN  IF LowerName(header.name) = "from"
             THEN IF match # <<>>
                  THEN LET name == Strip(match[1])
                           email == Strip(match[2])
                       IN  <<IF name # "" THEN name ELSE email, email>>
                  ELSE <<from_value, from_value>>
             ELSE helpers_get_sender_info_KeepQuotes(Tail(headers))

\* helpers.py get_sender_info(headers), lines 170-181
RECURSIVE helpers_get_sender_info(_)
helpers_get_sender_info(headers) ==
    IF headers = <<>>
    THEN <<"Unknown", "unknown">>
    ELSE LET header == Head(headers)
             from_value == header.value
             match == AngleMatch(from_value)
         IN  IF LowerName(header.name) = "from"
             THEN IF match # <<>>
                  THEN LET name == StripQuotes(Strip(match[1]))
                           email == Strip(match[2])
                       IN  <<IF name # "" THEN name ELSE email, email>>
                  ELSE <<from_value, from_value>>
             ELSE helpers_get_sender_info(Tail(headers))

\* what the batch gives the callback for one message: an exception, or the
\* metadata with its headers
Fetched(headers) == [exception |-> FALSE, headers |-> headers]
FetchFailed == [exception |-> TRUE, headers |-> <<>>]

MsgShop1 == Fetched(<<Header("From", FromShop), Header("Subject", "Sale"),
                      Header("List-Unsubscribe", UnsubShop1)>>)
MsgShop2 == Fetched(<<Header("LIST-UNSUBSCRIBE", UnsubShop2),
                      Header("From", FromShopAlt), Header("Subject", SubjectLong)>>)
MsgNews == Fetched(<<Header("From", FromNews), Header("Subject", "Weekly"),
                     Header("List-Unsubscribe", UnsubNews)>>)
MsgMailtoOnly == Fetched(<<Header("From", FromNews), Header("Subject", "Digest"),
                           Header("List-Unsubscribe", UnsubMailto)>>)
MsgPlain == Fetched(<<Header("From", FromShop), Header("Subject", "Receipt")>>)
MsgNoSender == Fetched(<<Header("From", FromNobody),
                         Header("List-Unsubscribe", UnsubShop1)>>)

\* the mailboxes of the model: message i of a mailbox is its pattern taken cyclically
Patterns == {<<MsgShop1>>,
             <<MsgNews, MsgShop1, MsgPlain, MsgShop2>>,
             <<MsgShop1, FetchFailed, MsgMailtoOnly, MsgNoSender, MsgNews>>}

batch_size == 100

\* the sizes of the message lists of the model
Totals == {k * batch_size + j : k \in 0..MaxFullBatches, j \in 0..MaxTail}

\* what messages().list().execute() returned: total ids, and what a fetch gives for each
Messages(total, pattern) == [total |-> total, pattern |-> pattern]
NoMessages == Messages(0, <<>>)
MessageAt(msgs, i) == msgs.pattern[((i - 1) % Len(msgs.pattern)) + 1]

(***************************************************************************)
(* scan_emails_api: the callback, the batch loop, the sort.                *)
(***************************************************************************)
\* senders_data[domain] of the defaultdict (lines 201-206)
NewBucket(domain) ==
    [domain |-> domain, count |-> 0, links |-> {}, subjects |-> <<>>, from |-> ""]

IndexOfDomain(data, domain) ==
    IF \E i \in 1..Len(data) : data[i].domain = domain
    THEN CHOOSE i \in 1..Len(data) : data[i].domain = domain
    ELSE 0

\* the bucket keeping the from value of its first message and every subject
Accumulate_FirstFromAllSubjects(bucket, unsub_link, from_value, subject) ==
    [bucket EXCEPT !.count = @ + 1,
                   !.links = @ \cup {unsub_link},
                   !.from = IF bucket.count = 0 THEN from_value ELSE @,
                   !.subjects = IF Len(@) < 4 THEN Append(@, subject) ELSE @]

\* lines 228-232 on the bucket of the domain
Accumulate(bucket, unsub_link, from_value, subject) ==
    [bucket EXCEPT !.count = @ + 1,
                   !.links = @ \cup {unsub_link},
                   !.from = from_value,
                   !.subjects = IF Len(@) < 3 THEN Append(@, subject) ELSE @]

\* the callback without the test of line 224 on the link it found
process_message_AnyLink(st, fetched) ==
    LET counted == [st EXCEPT !.processed = @ + 1]
    IN  IF fetched.exception
        THEN counted
        ELSE LET headers == fetched.headers
                 unsub_link == get_unsubscribe_from_headers(headers)
             IN  IF unsub_link # None
                 THEN LET info == get_sender_info(headers)
                          subject == get_subject(headers)
                          k == IndexOfDomain(counted.senders_data, info[2])
                          data == IF k = 0
                                  THEN Append(counted.senders_data, NewBucket(info[2]))
                                  ELSE counted.senders_data
                          j == IF k = 0 THEN Len(data) ELSE k
                      IN  [counted EXCEPT !.senders_data =
                              [data EXCEPT ![j] = Accumulate(@, unsub_link, info[1], subject)]]
                 ELSE counted

\* the callback losing what was aggregated when a fetch reports an error
process_message_ErrorResets(st, fetched) ==
    LET counted == [st EXCEPT !.processed = @ + 1]
    IN  IF fetched.exception
        THEN [counted EXCEPT !.senders_data = <<>>]
        ELSE LET headers == fetched.headers
                 unsub_link == get_unsubscribe_from_headers(headers)
             IN  IF unsub_link # None /\ StartsWithHttp(unsub_link)
                 THEN LET info == get_sender_info(headers)
                          subject == get_subject(headers)
                          k == IndexOfDomain(counted.senders_data, info[2])
                          data == IF k = 0
                                  THEN Append(counted.senders_data, NewBucket(info[2]))
                                  ELSE counted.senders_data
                          j == IF k = 0 THEN Len(data) ELSE k
                      IN  [counted EXCEPT !.senders_data =
                              [data EXCEPT ![j] = Accumulate(@, unsub_link, info[1], subject)]]
                 ELSE counted

\* process_message(request_id, response, exception), lines 213-232, on the locals
\* st = [processed, senders_data]
process_message(st, fetched) ==
    LET counted == [st EXCEPT !.processed = @ + 1]
    IN  IF fetched.exception
        THEN counted
        ELSE LET headers == fetched.headers
                 unsub_link == get_unsubscribe_from_headers(headers)
             IN  IF unsub_link # None /\ StartsWithHttp(unsub_link)
                 THEN LET info == get_sender_info(headers)
                          subject == get_subject(headers)
                          k == IndexOfDomain(counted.senders_data, info[2])
                          data == IF k = 0
                                  THEN Append(counted.senders_data, NewBucket(info[2]))
                                  ELSE counted.senders_data
                          j == IF k = 0 THEN Len(data) ELSE k
                      IN  [counted EXCEPT !.senders_data =
                              [data EXCEPT ![j] = Accumulate(@, unsub_link, info[1], subject)]]
                 ELSE counted

\* a batch loop that never requests the last id of a full batch
RECURSIVE RunBatch_DropsHundredth(_, _, _, _)
RunBatch_DropsHundredth(st, msgs, lo, hi) ==
    IF lo >= hi
    THEN st
    ELSE IF hi = lo + 1
    THEN IF hi % batch_size = 0 THEN st ELSE process_message(st, MessageAt(msgs, hi))
    ELSE LET mid == (lo + hi) \div 2
             half == RunBatch_DropsHundredth(st, msgs, lo, mid)
         IN  IF half.processed >= st.processed
             THEN RunBatch_DropsHundredth(half, msgs, mid, hi)
             ELSE half

\* batch.execute(), lines 243-254: the callback on messages lo+1 .. hi, in order
\* (the range is halved, and the first half evaluated before the second is
\* entered, so that the evaluation stays shallow)
RECURSIVE RunBatch(_, _, _, _)
RunBatch(st, msgs, lo, hi) ==
    IF lo >= hi
    THEN st
    ELSE IF hi = lo + 1
    THEN process_message(st, MessageAt(msgs, hi))
    ELSE LET mid == (lo + hi) \div 2
             half == RunBatch(st, msgs, lo, mid)
         IN  IF half.processed >= st.processed
             THEN RunBatch(half, msgs, mid, hi)
             ELSE half

Min(a, b) == IF a <= b THEN a ELSE b

\* a progress that reaches 100 with the last batch
BatchProgress_To100(batch_end, total) == 20 + ((batch_end * 80) \div total)

\* line 256: 15 + int((batch_end / total) * 80)
BatchProgress(batch_end, total) == 15 + ((batch_end * 80) \div total)

\* a sort by descending count that puts the later of two equal counts first
RECURSIVE InsertByCount_TiesReversed(_, _)
InsertByCount_TiesReversed(sorted, item) ==
    IF sorted = <<>>
    THEN <<item>>
    ELSE IF Head(sorted).count > item.count
    THEN <<Head(sorted)>> \o InsertByCount_TiesReversed(Tail(sorted), item)
    ELSE <<item>> \o sorted

\* line 260: sorted(..., key=count, reverse=True), a stable sort
RECURSIVE InsertByCount(_, _)
InsertByCount(sorted, item) ==
    IF sorted = <<>>
    THEN <<item>>
    ELSE IF Head(sorted).count >= item.count
    THEN <<Head(sorted)>> \o InsertByCount(Tail(sorted), item)
    ELSE <<item>> \o sorted

RECURSIVE SortByCount(_)
SortByCount(data) ==
    IF data = <<>>
    THEN <<>>
    ELSE InsertByCount(SortByCount(SubSeq(data, 1, Len(data) - 1)), data[Len(data)])

\* line 263
HttpLinks(bucket) == {l \in bucket.links : StartsWithHttp(l)}

\* the dict of lines 265-271 with a count that leaves out the first message
Entry_CountLessOne(bucket, link) ==
    [domain |-> bucket.domain, count |-> bucket.count - 1, from |-> bucket.from,
     link |-> link, subjects |-> bucket.subjects]

\* lines 265-271: the dict appended for a bucket, link being http_links[0]
Entry(bucket, link) ==
    [domain |-> bucket.domain, count |-> bucket.count, from |-> bucket.from,
     link |-> link, subjects |-> bucket.subjects]

\* lines 260-271: the lists the loop may build from senders_data; http_links[0] is
\* the first element of a set in iteration order, which is any element of it
EntryLists(data) ==
    LET sorted == SelectSeq(SortByCount(data), LAMBDA b : HttpLinks(b) # {})
    IN  {[i \in 1..Len(sorted) |-> Entry(sorted[i], f[i])] :
            f \in {g \in [1..Len(sorted) -> HttpUris] :
                    \A i \in 1..Len(sorted) : g[i] \in HttpLinks(sorted[i])}}

(***************************************************************************)
(* Scan threads and the shapes of the scan state.                          *)
(***************************************************************************)
Runs == 1..MaxRuns

\* a message text: a format with the numbers and the texts put into it
Msg(fmt, nums, strs) == [fmt |-> fmt, nums |-> nums, strs |-> strs]

Status(progress, message, done, error) ==
    [progress |-> progress, message |-> message, done |-> done, error |-> error]

NoResponse == [path |-> "", status |-> Status(0, Msg("", <<>>, <<>>), FALSE, None),
               results |-> <<>>]

(***************************************************************************)
(* The state after the modules are loaded.                                 *)
(***************************************************************************)
UnsubInit ==
    /\ invocation = [fn |-> "", domain |-> "", link |-> NoLink]
    /\ outcome = NoOutcome
    /\ trace = <<>>

\* gmail_api_unsubscribe.py lines 45-46, no scan thread started
ScanInit ==
    /\ scan_results = <<>>
    /\ scan_status = Status(0, Msg("Ready", <<>>, <<>>), FALSE, None)
    /\ pc = [r \in Runs |-> "idle"]
    /\ messages = [r \in Runs |-> NoMessages]
    /\ batch_start = [r \in Runs |-> 0]
    /\ processed = [r \in Runs |-> 0]
    /\ senders_data = [r \in Runs |-> <<>>]
    /\ sorted_senders = [r \in Runs |-> <<>>]
    /\ appended = [r \in Runs |-> 0]
    /\ progress_log = [r \in Runs |-> <<>>]
    /\ response = NoResponse

\* no extractor has been called
NoExtract == [fn |-> "", result |-> None]

HeaderInit ==
    /\ given_headers = <<>>
    /\ extracted = NoExtract

Init == UnsubInit /\ ScanInit /\ HeaderInit

(***************************************************************************)
(* The unsubscribe entry points.  One request is served at a time; the     *)
(* resolver and the HTTP client answer the calls that are made, and only   *)
(* those: whether a call is made is read off the events of the run up to   *)
(* that call.                                                              *)
(***************************************************************************)
Asked(events, ops) == \E i \in 1..Len(events) : events[i].op \in ops

Idle == invocation.fn = ""

\* a caller validates a link: validate_unsafe_url(url)
ValidateUrl ==
    /\ Idle
    /\ \E url \in Links :
        \E dns \in IF Asked(validate_unsafe_url(url, NoAnswer).events, {"getaddrinfo"})
                   THEN DnsAnswers ELSE {NoAnswer} :
            LET r == validate_unsafe_url(url, dns)
            IN  /\ invocation' = [fn |-> "validate_unsafe_url", domain |-> "", link |-> url]
                /\ outcome' = r.result
                /\ trace' = r.events
    /\ UNCHANGED scanVars
    /\ UNCHANGED headerVars

\* a caller of the service: unsubscribe.py unsubscribe_single(domain, link)
UnsubscribeSingle ==
    /\ Idle
    /\ \E domain \in Domains, link \in Links :
        \E dns \in IF Asked(unsubscribe_single(domain, link, NoAnswer, NoHttp, NoHttp).events,
                            {"getaddrinfo"})
                   THEN DnsAnswers ELSE {NoAnswer} :
        \E post \in IF Asked(unsubscribe_single(domain, link, dns, NoHttp, NoHttp).events,
                             {"POST"})
                    THEN HttpOutcomes ELSE {NoHttp} :
        \E get \in IF Asked(unsubscribe_single(domain, link, dns, post, NoHttp).events,
                            {"GET"})
                   THEN HttpOutcomes ELSE {NoHttp} :
            LET r == unsubscribe_single(domain, link, dns, post, get)
            IN  /\ invocation' = [fn |-> "unsubscribe_single", domain |-> domain,
                                  link |-> link]
                /\ outcome' = r.result
                /\ trace' = r.events
    /\ UNCHANGED scanVars
    /\ UNCHANGED headerVars

\* RequestHandler.do_POST, path /unsubscribe-one (lines 824-830)
DoPostUnsubscribeOne ==
    /\ Idle
    /\ \E domain \in Domains, link \in Links :
        \E http \in IF Asked(api_unsubscribe_single(domain, link, NoHttp).events,
                             {"GET", "FTP"})
                    THEN HttpOutcomes ELSE {NoHttp} :
            LET r == api_unsubscribe_single(domain, link, http)
            IN  /\ invocation' = [fn |-> "do_POST /unsubscribe-one", domain |-> domain,
                                  link |-> link]
                /\ outcome' = r.result
                /\ trace' = r.events
    /\ UNCHANGED scanVars
    /\ UNCHANGED headerVars

\* the caller has its answer; the next request can be served
Respond ==
    /\ ~Idle
    /\ invocation' = [fn |-> "", domain |-> "", link |-> NoLink]
    /\ outcome' = NoOutcome
    /\ trace' = <<>>
    /\ UNCHANGED scanVars
    /\ UNCHANGED headerVars

UnsubNext == ValidateUrl \/ UnsubscribeSingle \/ DoPostUnsubscribeOne \/ Respond

UnsubSpec == Init /\ [][UnsubNext]_vars

(***************************************************************************)
(* The header extractors called on header lists.                           *)
(***************************************************************************)
\* the headers a list is made of
HeaderPool ==
    {Header("List-Unsubscribe", UnsubShop1), Header("LIST-UNSUBSCRIBE", UnsubShop2),
     Header("List-Unsubscribe", UnsubNews), Header("List-Unsubscribe", UnsubMailto),
     Header("List-Unsubscribe", UnsubBare), Header("List-Unsubscribe-Post", PostValue),
     Header("list-unsubscribe-post", PostValue), Header("From", FromShop)}

HeaderLists == SeqsUpTo(HeaderPool, MaxHeaders)

\* a caller of helpers.py get_unsubscribe_from_headers(headers)
CallHelpersGetUnsubscribe ==
    /\ extracted = NoExtract
    /\ \E hs \in HeaderLists :
          /\ given_headers' = hs
          /\ extracted' = [fn |-> "helpers.get_unsubscribe_from_headers",
                           result |-> helpers_get_unsubscribe_from_headers(hs)]
    /\ UNCHANGED unsubVars
    /\ UNCHANGED scanVars

\* a caller of gmail_api_unsubscribe.py get_unsubscribe_from_headers(headers)
CallApiGetUnsubscribe ==
    /\ extracted = NoExtract
    /\ \E hs \in HeaderLists :
          /\ given_headers' = hs
          /\ extracted' = [fn |-> "gmail_api_unsubscribe.get_unsubscribe_from_headers",
                           result |-> get_unsubscribe_from_headers(hs)]
    /\ UNCHANGED unsubVars
    /\ UNCHANGED scanVars

\* the headers a list given to a sender extractor is made of
SenderPool ==
    {Header("From", FromShop), Header("FROM", FromNews), Header("From", FromShopAlt),
     Header("From", FromNobody), Header("From", FromBracketOnly),
     Header("From", FromPadded), Header("From", FromSeveralAt), Header("From", FromEmpty),
     Header("Subject", "Sale")}

SenderLists == SeqsUpTo(SenderPool, MaxHeaders)

\* a caller of helpers.py get_sender_info(headers)
CallHelpersGetSenderInfo ==
    /\ extracted = NoExtract
    /\ \E hs \in SenderLists :
          /\ given_headers' = hs
          /\ extracted' = [fn |-> "helpers.get_sender_info",
                           result |-> helpers_get_sender_info(hs)]
    /\ UNCHANGED unsubVars
    /\ UNCHANGED scanVars

\* a caller of gmail_api_unsubscribe.py get_sender_info(headers)
CallApiGetSenderInfo ==
    /\ extracted = NoExtract
    /\ \E hs \in SenderLists :
          /\ given_headers' = hs
          /\ extracted' = [fn |-> "gmail_api_unsubscribe.get_sender_info",
                           result |-> get_sender_info(hs)]
    /\ UNCHANGED unsubVars
    /\ UNCHANGED scanVars

\* the caller has the value
ReturnExtracted ==
    /\ extracted # NoExtract
    /\ given_headers' = <<>>
    /\ extracted' = NoExtract
    /\ UNCHANGED unsubVars
    /\ UNCHANGED scanVars

HeaderNext ==
    \/ CallHelpersGetUnsubscribe
    \/ CallApiGetUnsubscribe
    \/ CallHelpersGetSenderInfo
    \/ CallApiGetSenderInfo
    \/ ReturnExtracted

HeaderSpec == Init /\ [][HeaderNext]_vars

(***************************************************************************)
(* scan_emails_api, one thread per POST /scan.  A step is one access to    *)
(* the globals scan_results and scan_status together with the local work   *)
(* and the provider call that precede it.                                  *)
(***************************************************************************)
ErrNoCredentials == "credentials.json not found! Please follow setup instructions."
ErrHttp == "<HttpError 500 when requesting the Gmail API>"
ErrOther == "Connection reset by peer"

\* the handlers without the error text in the status
Failure_NoError(kind) ==
    IF kind = "HttpError"
    THEN Status(0, Msg("Gmail API error: {}", <<>>, <<ErrHttp>>), TRUE, None)
    ELSE Status(0, Msg("Error: {}", <<>>, <<ErrOther>>), TRUE, None)

\* the handlers of lines 275-278 publishing a status that is not final
Failure_NotDone(kind) ==
    IF kind = "HttpError"
    THEN Status(0, Msg("Gmail API error: {}", <<>>, <<ErrHttp>>), FALSE, ErrHttp)
    ELSE Status(0, Msg("Error: {}", <<>>, <<ErrOther>>), FALSE, ErrOther)

\* lines 275-278: the two handlers of scan_emails_api
Failure(kind) ==
    IF kind = "HttpError"
    THEN Status(0, Msg("Gmail API error: {}", <<>>, <<ErrHttp>>), TRUE, ErrHttp)
    ELSE Status(0, Msg("Error: {}", <<>>, <<ErrOther>>), TRUE, ErrOther)

ExceptionKinds == {"HttpError", "Exception"}

\* thread r assigns scan_status
WriteStatus(r, st) ==
    /\ scan_status' = st
    /\ progress_log' = [progress_log EXCEPT ![r] = Append(@, st.progress)]

\* no response is being written: a response is delivered in the step after the
\* read, so that a response in the state holds what was read in that very state
NoneInFlight == response = NoResponse

\* RequestHandler.do_POST, path /scan (lines 814-822): a thread is started; the
\* threads are numbered in the order in which they are started
DoPostScan(r) ==
    /\ NoneInFlight
    /\ pc[r] = "idle"
    /\ \A q \in Runs : q < r => pc[q] # "idle"
    /\ pc' = [pc EXCEPT ![r] = "line174"]
    /\ UNCHANGED <<scan_results, scan_status, messages, batch_start, processed,
                   senders_data, sorted_senders, appended, progress_log, response>>
    /\ UNCHANGED unsubVars
    /\ UNCHANGED headerVars

\* line 174: scan_results = []
ResetResults(r) ==
    /\ NoneInFlight
    /\ pc[r] = "line174"
    /\ scan_results' = <<>>
    /\ pc' = [pc EXCEPT ![r] = "line175"]
    /\ UNCHANGED <<scan_status, messages, batch_start, processed, senders_data,
                   sorted_senders, appended, progress_log, response>>
    /\ UNCHANGED unsubVars
    /\ UNCHANGED headerVars

\* line 175: the first status of the run
WriteConnecting(r) ==
    /\ NoneInFlight
    /\ pc[r] = "line175"
    /\ WriteStatus(r, Status(5, Msg("Connecting to Gmail API...", <<>>, <<>>), FALSE, None))
    /\ pc' = [pc EXCEPT ![r] = "line178"]
    /\ UNCHANGED <<scan_results, messages, batch_start, processed, senders_data,
                   sorted_senders, appended, response>>
    /\ UNCHANGED unsubVars
    /\ UNCHANGED headerVars

\* lines 178-183: get_gmail_service() gives a service, gives an error, or raises
Connect(r) ==
    /\ NoneInFlight
    /\ pc[r] = "line178"
    /\ \/ /\ WriteStatus(r, Status(10, Msg("Fetching email list...", <<>>, <<>>), FALSE, None))
          /\ pc' = [pc EXCEPT ![r] = "line186"]
       \/ /\ WriteStatus(r, Status(0, Msg(ErrNoCredentials, <<>>, <<>>), TRUE, ErrNoCredentials))
          /\ pc' = [pc EXCEPT ![r] = "aborted"]
       \/ \E kind \in ExceptionKinds :
            /\ WriteStatus(r, Failure(kind))
            /\ pc' = [pc EXCEPT ![r] = "aborted"]
    /\ UNCHANGED <<scan_results, messages, batch_start, processed, senders_data,
                   sorted_senders, appended, response>>
    /\ UNCHANGED unsubVars
    /\ UNCHANGED headerVars

\* lines 186-198 and 210-211: the list call raises, returns nothing, or returns ids
ListMessages(r) ==
    /\ NoneInFlight
    /\ pc[r] = "line186"
    /\ \/ \E kind \in ExceptionKinds :
            /\ WriteStatus(r, Failure(kind))
            /\ pc' = [pc EXCEPT ![r] = "aborted"]
            /\ UNCHANGED <<messages, batch_start, processed, senders_data>>
       \/ /\ WriteStatus(r, Status(100, Msg("No emails found", <<>>, <<>>), TRUE, None))
          /\ pc' = [pc EXCEPT ![r] = "done"]
          /\ UNCHANGED <<messages, batch_start, processed, senders_data>>
       \/ \E total \in Totals \ {0}, pattern \in Patterns :
            /\ messages' = [messages EXCEPT ![r] = Messages(total, pattern)]
            /\ WriteStatus(r, Status(15, Msg("Found {} emails, batch fetching...",
                                             <<total>>, <<>>), FALSE, None))
            /\ batch_start' = [batch_start EXCEPT ![r] = 0]
            /\ processed' = [processed EXCEPT ![r] = 0]
            /\ senders_data' = [senders_data EXCEPT ![r] = <<>>]
            /\ pc' = [pc EXCEPT ![r] = "line237"]
    /\ UNCHANGED <<scan_results, sorted_senders, appended, response>>
    /\ UNCHANGED unsubVars
    /\ UNCHANGED headerVars

\* lines 237-257: one turn of the batch loop; batch.execute() raises, or runs the
\* callback on every message of the batch, and then the progress is written
ExecuteBatch(r) ==
    /\ NoneInFlight
    /\ pc[r] = "line237"
    /\ batch_start[r] < messages[r].total
    /\ \/ \E kind \in ExceptionKinds :
            /\ WriteStatus(r, Failure(kind))
            /\ pc' = [pc EXCEPT ![r] = "aborted"]
            /\ UNCHANGED <<batch_start, processed, senders_data>>
       \/ LET total == messages[r].total
              batch_end == Min(batch_start[r] + batch_size, total)
              st == RunBatch([processed |-> processed[r],
                              senders_data |-> senders_data[r]],
                             messages[r], batch_start[r], batch_end)
          IN  /\ processed' = [processed EXCEPT ![r] = st.processed]
              /\ senders_data' = [senders_data EXCEPT ![r] = st.senders_data]
              /\ WriteStatus(r, Status(BatchProgress(batch_end, total),
                                       Msg("Batch fetched {}/{} emails",
                                           <<batch_end, total>>, <<>>), FALSE, None))
              /\ batch_start' = [batch_start EXCEPT ![r] = @ + batch_size]
              /\ pc' = pc
    /\ UNCHANGED <<scan_results, messages, sorted_senders, appended, response>>
    /\ UNCHANGED unsubVars
    /\ UNCHANGED headerVars

\* line 260 and the local part of lines 262-271: the loop is over, the entries are fixed
SortSenders(r) ==
    /\ NoneInFlight
    /\ pc[r] = "line237"
    /\ batch_start[r] >= messages[r].total
    /\ \E entries \in EntryLists(senders_data[r]) :
            sorted_senders' = [sorted_senders EXCEPT ![r] = entries]
    /\ appended' = [appended EXCEPT ![r] = 0]
    /\ pc' = [pc EXCEPT ![r] = "line262"]
    /\ UNCHANGED <<scan_results, scan_status, messages, batch_start, processed,
                   senders_data, progress_log, response>>
    /\ UNCHANGED unsubVars
    /\ UNCHANGED headerVars

\* line 265: scan_results.append(...), on the list the global names at that moment
AppendResult(r) ==
    /\ NoneInFlight
    /\ pc[r] = "line262"
    /\ appended[r] < Len(sorted_senders[r])
    /\ scan_results' = Append(scan_results, sorted_senders[r][appended[r] + 1])
    /\ appended' = [appended EXCEPT ![r] = @ + 1]
    /\ UNCHANGED <<scan_status, pc, messages, batch_start, processed, senders_data,
                   sorted_senders, progress_log, response>>
    /\ UNCHANGED unsubVars
    /\ UNCHANGED headerVars

\* line 273 moved into the loop of lines 262-271: the final status is published
\* once before the last entries are appended, and again after them
PublishDone_BeforeAppends(r) ==
    /\ NoneInFlight
    /\ pc[r] = "line262"
    /\ appended[r] = Len(sorted_senders[r]) \/ ~scan_status.done
    /\ WriteStatus(r, Status(100, Msg("Done! Found {} senders", <<Len(scan_results)>>, <<>>),
                             TRUE, None))
    /\ pc' = [pc EXCEPT ![r] = IF appended[r] = Len(sorted_senders[r]) THEN "done" ELSE @]
    /\ UNCHANGED <<scan_results, messages, batch_start, processed, senders_data,
                   sorted_senders, appended, response>>
    /\ UNCHANGED unsubVars
    /\ UNCHANGED headerVars

\* line 273: the last status of a run that was not aborted
PublishDone(r) ==
    /\ NoneInFlight
    /\ pc[r] = "line262"
    /\ appended[r] = Len(sorted_senders[r])
    /\ WriteStatus(r, Status(100, Msg("Done! Found {} senders", <<Len(scan_results)>>, <<>>),
                             TRUE, None))
    /\ pc' = [pc EXCEPT ![r] = "done"]
    /\ UNCHANGED <<scan_results, messages, batch_start, processed, senders_data,
                   sorted_senders, appended, response>>
    /\ UNCHANGED unsubVars
    /\ UNCHANGED headerVars

\* RequestHandler.do_GET, path /status (lines 796-800)
DoGetStatus ==
    /\ NoneInFlight
    /\ response' = [path |-> "/status", status |-> scan_status, results |-> <<>>]
    /\ UNCHANGED <<scan_results, scan_status, pc, messages, batch_start, processed,
                   senders_data, sorted_senders, appended, progress_log>>
    /\ UNCHANGED unsubVars
    /\ UNCHANGED headerVars

\* RequestHandler.do_GET, path /results (lines 801-805)
DoGetResults ==
    /\ NoneInFlight
    /\ response' = [path |-> "/results", status |-> NoResponse.status,
                    results |-> scan_results]
    /\ UNCHANGED <<scan_results, scan_status, pc, messages, batch_start, processed,
                   senders_data, sorted_senders, appended, progress_log>>
    /\ UNCHANGED unsubVars
    /\ UNCHANGED headerVars

\* the response is written to the client
Deliver ==
    /\ response # NoResponse
    /\ response' = NoResponse
    /\ UNCHANGED <<scan_results, scan_status, pc, messages, batch_start, processed,
                   senders_data, sorted_senders, appended, progress_log>>
    /\ UNCHANGED unsubVars
    /\ UNCHANGED headerVars

ScanThread(r) ==
    \/ ResetResults(r)
    \/ WriteConnecting(r)
    \/ Connect(r)
    \/ ListMessages(r)
    \/ ExecuteBatch(r)
    \/ SortSenders(r)
    \/ AppendResult(r)
    \/ PublishDone(r)

ScanNext ==
    \/ \E r \in Runs : DoPostScan(r)
    \/ \E r \in Runs : ScanThread(r)
    \/ DoGetStatus
    \/ DoGetResults
    \/ Deliver

ScanSpec == Init /\ [][ScanNext]_vars

(***************************************************************************)
(* The scan driven by a client that requests a scan only when no scan      *)
(* thread is running, as the page does when it waits for done=true before  *)
(* it offers the scan button again.  One thread is alive at a time: the    *)
(* locals of the thread that returned are gone when the next one starts.   *)
(***************************************************************************)
Running(r) == pc[r] \notin {"idle", "done", "aborted"}

\* the thread of the sequential client
Worker == 1

\* RequestHandler.do_POST, path /scan (lines 814-822), requested while no scan
\* thread runs
StartScan ==
    /\ NoneInFlight
    /\ ~Running(Worker)
    /\ pc' = [pc EXCEPT ![Worker] = "line174"]
    /\ messages' = [messages EXCEPT ![Worker] = NoMessages]
    /\ batch_start' = [batch_start EXCEPT ![Worker] = 0]
    /\ processed' = [processed EXCEPT ![Worker] = 0]
    /\ senders_data' = [senders_data EXCEPT ![Worker] = <<>>]
    /\ sorted_senders' = [sorted_senders EXCEPT ![Worker] = <<>>]
    /\ appended' = [appended EXCEPT ![Worker] = 0]
    /\ progress_log' = [progress_log EXCEPT ![Worker] = <<>>]
    /\ UNCHANGED <<scan_results, scan_status, response>>
    /\ UNCHANGED unsubVars
    /\ UNCHANGED headerVars

SeqScanNext ==
    \/ StartScan
    \/ ScanThread(Worker)
    \/ DoGetStatus
    \/ DoGetResults
    \/ Deliver

SeqScanSpec == Init /\ [][SeqScanNext]_vars

\* the scan thread is a daemon thread of the interpreter (line 816): it is scheduled
\* again and again whatever the request handlers do, each provider call returns or
\* raises, and a response being written is written to its end
FairSeqScanSpec ==
    /\ SeqScanSpec
    /\ SF_vars(ScanThread(Worker))
    /\ WF_vars(Deliver)

(***************************************************************************)
(* Claims about the validator and the unsubscribe entry points, checked    *)
(* under UnsubSpec.                                                        *)
(***************************************************************************)
HttpOps == {"POST", "GET"}

\* the resolver's answer in the request being served (NoAnswer if it was not asked)
AnswerGiven ==
    IF \E i \in 1..Len(trace) : trace[i].op = "getaddrinfo"
    THEN trace[CHOOSE i \in 1..Len(trace) : trace[i].op = "getaddrinfo"].dns
    ELSE NoAnswer

\* the addresses the claims call restricted: private, loopback, link-local, unspecified
RestrictedAddrs == {"10.0.0.5", "127.0.0.1", "169.254.169.254", "0.0.0.0"}

ServingUnsubscribe == invocation.fn = "unsubscribe_single"
ServingValidate == invocation.fn = "validate_unsafe_url"

\* C1: when validate_unsafe_url rejects the link of an unsubscribe_single call, the
\* call returns success=false with the message "Security Error: " followed by the
\* validator's reason, and the trace of the call holds no POST and no GET.
C1_SecurityShortCircuit ==
    (/\ ServingUnsubscribe
     /\ Truthy(invocation.link)
     /\ ~StartsWithMailto(invocation.link)
     /\ validate_unsafe_url(invocation.link, AnswerGiven).result.raised)
    =>  /\ ~outcome.raised
        /\ outcome.value.keys = {"success", "message"}
        /\ outcome.value.success = FALSE
        /\ outcome.value.message =
              <<"Security Error: ">>
                  \o validate_unsafe_url(invocation.link, AnswerGiven).result.exc.text
        /\ ~Asked(trace, HttpOps)

\* C1 witness: a link whose host resolves to a restricted address was rejected
C1_Witness ==
    /\ ServingUnsubscribe
    /\ Len(trace) = 2
    /\ trace[1].op = "getaddrinfo"
    /\ trace[2].op = "validate_unsafe_url" /\ ~trace[2].ok
    /\ outcome.value.message = <<"Security Error: ", MsgRestrictedAddress, "127.0.0.1">>

\* C2: every HTTP request in the trace of a request being served comes after a
\* successful validator verdict on the same link, whatever the entry point.
C2_EveryRequestValidated ==
    \A i \in 1..Len(trace) :
        trace[i].op \in HttpOps =>
            \E j \in 1..(i - 1) :
                /\ trace[j].op = "validate_unsafe_url"
                /\ trace[j].ok
                /\ trace[j].url = trace[i].url

\* index of the first restricted address of a resolver answer, 0 if there is none
FirstRestricted(addrs) ==
    IF \E i \in 1..Len(addrs) : addrs[i] \in RestrictedAddrs
    THEN CHOOSE i \in 1..Len(addrs) :
            /\ addrs[i] \in RestrictedAddrs
            /\ \A j \in 1..(i - 1) : addrs[j] \notin RestrictedAddrs
    ELSE 0

\* C3: when the resolver returned addresses for the host of an http/https URL,
\* validate_unsafe_url fails with the restricted-address error naming the (first)
\* restricted address if any returned address is restricted, wherever it stands in
\* the answer, and returns only if the answer is non-empty and holds no restricted
\* address.
C3_AllAddressesChecked ==
    (ServingValidate /\ Asked(trace, {"getaddrinfo"}) /\ ~AnswerGiven.gaierror) =>
        LET addrs == AnswerGiven.addrs
            k == FirstRestricted(addrs)
        IN  /\ k # 0 =>
                /\ outcome.raised
                /\ outcome.exc.text = <<MsgRestrictedAddress, addrs[k]>>
            /\ ~outcome.raised =>
                /\ addrs # <<>>
                /\ \A i \in 1..Len(addrs) : addrs[i] \notin RestrictedAddrs

\* C3 witness: a public address followed by a restricted one, and the restricted one named
C3_Witness ==
    /\ ServingValidate
    /\ AnswerGiven.addrs = <<"93.184.216.34", "169.254.169.254">>
    /\ outcome.raised
    /\ outcome.exc.text = <<MsgRestrictedAddress, "169.254.169.254">>

\* C4: for a URL whose scheme (as urlparse reports it) is neither http nor https,
\* validate_unsafe_url raises the disallowed-scheme error whatever the resolver
\* would answer; and the resolver is asked only for URLs with an http/https scheme
\* and a hostname.
C4_SchemeBeforeResolution ==
    /\ (ServingValidate
        /\ ~urlparse(invocation.link).raised
        /\ urlparse(invocation.link).scheme \notin {"http", "https"})
       =>  /\ outcome = Raise("ValueError", <<MsgDisallowedScheme>>)
           /\ trace = <<>>
           /\ \A dns \in DnsAnswers :
                validate_unsafe_url(invocation.link, dns) =
                    [result |-> Raise("ValueError", <<MsgDisallowedScheme>>),
                     events |-> <<>>]
    /\ ((ServingValidate \/ ServingUnsubscribe) /\ Asked(trace, {"getaddrinfo"}))
       =>  /\ ~urlparse(invocation.link).raised
           /\ urlparse(invocation.link).scheme \in {"http", "https"}
           /\ urlparse(invocation.link).hostname # ""

\* C4 witness: an ftp URL with a hostname was refused for its scheme
C4_Witness ==
    /\ ServingValidate
    /\ invocation.link.scheme = "ftp"
    /\ invocation.link.host # ""
    /\ outcome = Raise("ValueError", <<MsgDisallowedScheme>>)

\* C5: unsubscribe_single never raises: whatever the link, the resolver and the HTTP
\* client do, it returns a dict that holds a success key.
C5_NeverRaises ==
    ServingUnsubscribe =>
        /\ ~outcome.raised
        /\ "success" \in outcome.value.keys
        /\ outcome.value.success \in BOOLEAN

\* C5 witness: the GET raised an exception no inner handler takes, and a result came back
C5_Witness ==
    /\ ServingUnsubscribe
    /\ trace # <<>>
    /\ trace[Len(trace)].op = "GET"
    /\ trace[Len(trace)].http.exc = "Exception"
    /\ ~outcome.raised
    /\ outcome.value.success = FALSE

\* C6: for a link that starts with "mailto:", unsubscribe_single returns success=false
\* with type mailto, and neither the resolver nor the HTTP client is called.
C6_MailtoNoNetwork ==
    (ServingUnsubscribe /\ StartsWithMailto(invocation.link)) =>
        /\ ~outcome.raised
        /\ outcome.value.success = FALSE
        /\ "type" \in outcome.value.keys
        /\ outcome.value.type = "mailto"
        /\ trace = <<>>

\* C6 witness: a mailto link was answered with the mailto result
C6_Witness ==
    /\ ServingUnsubscribe
    /\ invocation.link.scheme = "mailto"
    /\ outcome.value.type = "mailto"
    /\ outcome.value.success = FALSE

(***************************************************************************)
(* Claims about the scan, checked under ScanSpec.                          *)
(***************************************************************************)
\* what GET /status and GET /results return in the current state
StatusRead == scan_status
ResultsRead == scan_results

\* thread r is inside scan_emails_api
Active(r) == pc[r] \notin {"idle", "done", "aborted"}
\* thread r returned after line 195 or line 273
CompletedCleanly(r) == pc[r] = "done"

NonDecreasing(seq) == \A i \in 1..(Len(seq) - 1) : seq[i] <= seq[i + 1]

NonEmptyStrictPrefix(short, long) ==
    /\ short # <<>>
    /\ Len(short) < Len(long)
    /\ short = SubSeq(long, 1, Len(short))

\* C7: the progress values one run of scan_emails_api writes to scan_status are
\* non-decreasing, from its first write to its last, on every path.
C7_ProgressNonDecreasing == \A r \in Runs : NonDecreasing(progress_log[r])

\* C8: a GET /results served while a run is inside scan_emails_api never returns a
\* non-empty strict prefix of the list that run is building.
C8_NoPartialListRead ==
    response.path = "/results" =>
        \A r \in Runs :
            Active(r) => ~NonEmptyStrictPrefix(response.results, sorted_senders[r])

\* C9: whenever the status shows done=true and no error, the results are exactly
\* the complete list of one run that completed cleanly.
C9_DoneMeansCompleteList ==
    (StatusRead.done /\ StatusRead.error = None) =>
        \E r \in Runs : CompletedCleanly(r) /\ ResultsRead = sorted_senders[r]

\* C10: the status never shows done=true with an error while the results are
\* non-empty.
C10_NoErrorWithResults ==
    ~(StatusRead.done /\ StatusRead.error # None /\ ResultsRead # <<>>)

(***************************************************************************)
(* Claims about the requests of unsubscribe_single, checked under          *)
(* UnsubSpec.  A request is one urlopen call of the function.              *)
(***************************************************************************)
Range(seq) == {seq[i] : i \in 1..Len(seq)}

IndexesOf(op) == {i \in 1..Len(trace) : trace[i].op = op}

\* the validator accepted the link of the request being served
Accepted == \E i \in IndexesOf("validate_unsafe_url") : trace[i].ok

\* what the HTTP client answered to the (first) request of a method
AnswerTo(op) == trace[CHOOSE i \in IndexesOf(op) : \A j \in IndexesOf(op) : i <= j].http

EndedIn(http, statuses) == http.exc = "" /\ http.status \in statuses

\* C15: after the validator accepted the link, the first request of unsubscribe_single
\* is a POST with the one-click body to that link; when its response status is 200,
\* 201, 202 or 204 the call returns success=true and no GET is issued.
C15_PostFirst ==
    (ServingUnsubscribe /\ Accepted) =>
        /\ \E p \in IndexesOf("POST") :
              /\ \A j \in 1..(p - 1) : trace[j].op \notin HttpOps
              /\ trace[p].url = invocation.link
              /\ RequestBody(trace[p].op) = "List-Unsubscribe=One-Click"
        /\ EndedIn(AnswerTo("POST"), {200, 201, 202, 204}) =>
              /\ ~outcome.raised
              /\ outcome.value.success = TRUE
              /\ IndexesOf("GET") = {}

\* the POST was answered 204: success, and the POST is the last call of the trace
C15_Witness ==
    /\ ServingUnsubscribe
    /\ Accepted
    /\ trace[Len(trace)].op = "POST"
    /\ trace[Len(trace)].http.status = 204
    /\ outcome.value.success = TRUE

\* C16: unsubscribe_single issues a GET exactly when the validator accepted the link
\* and the POST did not end with status 200, 201, 202 or 204; the GET goes to the
\* link of the POST and comes after it; a call makes at most one POST and one GET.
C16_GetFallbackExactly ==
    ServingUnsubscribe =>
        /\ Cardinality(IndexesOf("POST")) <= 1
        /\ Cardinality(IndexesOf("GET")) <= 1
        /\ IndexesOf("POST") # {} <=> Accepted
        /\ IndexesOf("GET") # {} <=>
              /\ Accepted
              /\ ~EndedIn(AnswerTo("POST"), {200, 201, 202, 204})
        /\ \A g \in IndexesOf("GET") :
              \E p \in IndexesOf("POST") :
                  /\ p < g
                  /\ trace[p].url = trace[g].url
                  /\ trace[g].url = invocation.link

\* the POST raised an exception that is no transport error, and the GET followed
C16_Witness ==
    /\ ServingUnsubscribe
    /\ IndexesOf("POST") # {}
    /\ AnswerTo("POST").exc = "Exception"
    /\ trace[Len(trace)].op = "GET"
    /\ trace[Len(trace)].url = invocation.link

\* a result that says the server redirected
ClassifiedRedirected(d) ==
    \/ d.type = "redirected"
    \/ \E i \in 1..Len(d.message) : d.message[i] \in {"Redirected", "redirected"}
    \/ \E i \in 1..Len(d.status) : d.status[i] \in {"Redirected", "redirected"}

\* C17: on the GET fallback, a response status 200, 201, 202 or 204 gives success=true
\* with the "confirmation may be needed" message, a status 301 or 302 gives
\* success=true classified as redirected, and any other status gives success=false
\* with the status code in the message.
C17_GetStatusMapping ==
    (ServingUnsubscribe /\ IndexesOf("GET") # {} /\ AnswerTo("GET").exc = "") =>
        LET status == AnswerTo("GET").status
        IN  /\ ~outcome.raised
            /\ status \in {200, 201, 202, 204} =>
                  /\ outcome.value.success = TRUE
                  /\ outcome.value.message = <<"Unsubscribed (confirmation may be needed)">>
            /\ status \in {301, 302} =>
                  /\ outcome.value.success = TRUE
                  /\ ClassifiedRedirected(outcome.value)
            /\ status \notin {200, 201, 202, 204, 301, 302} =>
                  /\ outcome.value.success = FALSE
                  /\ StatusText(status) \in Range(outcome.value.message)

TransportFailure(http) == http.exc \in {"URLError", "HTTPError", "TimeoutError"}

\* text[:100] leaves the text as it is
Short(text) == Prefix100(text) = text

\* C18: a transport failure of the GET gives success=false with a message that
\* carries the error text truncated, and that does not carry the Security marker.
C18_GetTransportFailure ==
    (ServingUnsubscribe /\ IndexesOf("GET") # {} /\ TransportFailure(AnswerTo("GET"))) =>
        /\ ~outcome.raised
        /\ outcome.value.success = FALSE
        /\ \A i \in 1..Len(outcome.value.message) :
              /\ outcome.value.message[i] # "Security Error: "
              /\ Short(outcome.value.message[i])
        /\ Prefix100(AnswerTo("GET").text) \in Range(outcome.value.message)

(***************************************************************************)
(* Claims about the unsubscribe header extractors, checked under           *)
(* HeaderSpec.                                                             *)
(***************************************************************************)
IsListUnsubscribe(h) == LowerName(h.name) = "list-unsubscribe"
IsPostHeader(h) == LowerName(h.name) = "list-unsubscribe-post"

HasListUnsubscribe(hs) == \E i \in 1..Len(hs) : IsListUnsubscribe(hs[i])

\* the list without its list-unsubscribe-post headers
WithoutPost(hs) == SelectSeq(hs, LAMBDA h : ~IsPostHeader(h))

\* the list without its list-unsubscribe headers
WithoutListUnsubscribe(hs) == SelectSeq(hs, LAMBDA h : ~IsListUnsubscribe(h))

\* the list without the list-unsubscribe headers that follow the first one
RECURSIVE KeepFirstListUnsubscribe(_)
KeepFirstListUnsubscribe(hs) ==
    IF hs = <<>>
    THEN <<>>
    ELSE IF IsListUnsubscribe(Head(hs))
    THEN <<Head(hs)>> \o WithoutListUnsubscribe(Tail(hs))
    ELSE <<Head(hs)>> \o KeepFirstListUnsubscribe(Tail(hs))

CalledHelpers == extracted.fn = "helpers.get_unsubscribe_from_headers"
CalledApi == extracted.fn = "gmail_api_unsubscribe.get_unsubscribe_from_headers"

\* C19: for a header list that holds a list-unsubscribe header, helpers.py
\* get_unsubscribe_from_headers returns mode one-click when the list holds a
\* list-unsubscribe-post header, and mode manual for the list without that header.
C19_PostHeaderGivesOneClick ==
    (CalledHelpers /\ HasListUnsubscribe(given_headers)) =>
        /\ HasPostHeader(given_headers) => extracted.result[2] = "one-click"
        /\ helpers_get_unsubscribe_from_headers(WithoutPost(given_headers))[2] = "manual"

\* C20: what either get_unsubscribe_from_headers returns is what it returns for the
\* list without the list-unsubscribe headers that follow the first one.
C20_FirstListUnsubscribeOnly ==
    /\ CalledHelpers =>
          extracted.result =
              helpers_get_unsubscribe_from_headers(KeepFirstListUnsubscribe(given_headers))
    /\ CalledApi =>
          extracted.result =
              get_unsubscribe_from_headers(KeepFirstListUnsubscribe(given_headers))

\* the list-unsubscribe headers of the list, in order
ListUnsubscribeHeaders(hs) == SelectSeq(hs, IsListUnsubscribe)

\* the modes of an unsubscribe affordance; Python's None stands for mode none
AffordanceModes == {"one-click", "manual", "mailto", "none", None}

\* C21: for a header list with one list-unsubscribe header whose value holds no
\* http(s) URL in angle brackets, and with no list-unsubscribe-post header, helpers.py
\* get_unsubscribe_from_headers returns mode mailto if the value holds a mailto URI in
\* angle brackets and mode none otherwise; the mode is always one of the four modes.
C21_MailtoAndNoneModes ==
    CalledHelpers =>
        /\ extracted.result[2] \in AffordanceModes
        /\ (/\ Len(ListUnsubscribeHeaders(given_headers)) = 1
            /\ FindHttp(ListUnsubscribeHeaders(given_headers)[1].value) = <<>>
            /\ ~HasPostHeader(given_headers))
           => IF FindMailto(ListUnsubscribeHeaders(given_headers)[1].value) # <<>>
              THEN extracted.result[2] = "mailto"
              ELSE extracted.result[2] \in {"none", None}

IsFrom(h) == LowerName(h.name) = "from"
FromHeaders(hs) == SelectSeq(hs, IsFrom)

CalledHelpersSender == extracted.fn = "helpers.get_sender_info"
CalledApiSender == extracted.fn = "gmail_api_unsubscribe.get_sender_info"

\* the from values of the form display-name <email>, with the display name (trimmed,
\* surrounding quotes stripped) and the email they hold
DisplayForm ==
    {<<FromShop, "Shop Deals", "deals@Shop.Example">>,
     <<FromNews, "News", "letters@news.example">>,
     <<FromPadded, "Jane Doe", "jane@Example.com">>,
     <<FromBracketOnly, "", "deals@shop.example">>}

\* the from values without angle brackets
NoBrackets == {FromShopAlt, FromNobody, FromSeveralAt, FromEmpty}

\* C22: helpers.py get_sender_info uses the first from header only: display-name
\* <email> gives (display name, email), an empty display name gives (email, email),
\* a value without angle brackets gives (value, value), and a list without a from
\* header gives ("Unknown", "unknown").
C22_SenderNameAndEmail ==
    CalledHelpersSender =>
        IF FromHeaders(given_headers) = <<>>
        THEN extracted.result = <<"Unknown", "unknown">>
        ELSE LET value == FromHeaders(given_headers)[1].value
             IN  /\ \A f \in DisplayForm :
                       f[1] = value =>
                           extracted.result = <<IF f[2] # "" THEN f[2] ELSE f[3], f[3]>>
                 /\ value \in NoBrackets => extracted.result = <<value, value>>

\* the first of two from headers holds a quoted display name, the second is another
\* sender
C22_Witness ==
    /\ CalledHelpersSender
    /\ Len(FromHeaders(given_headers)) >= 2
    /\ FromHeaders(given_headers)[1].value = FromPadded
    /\ FromHeaders(given_headers)[2].value = FromShop
    /\ extracted.result = <<"Jane Doe", "jane@Example.com">>

\* the lower-cased text after '@' of the email-shaped token of a from value, and
\* "unknown" for a value that holds no such token
DomainOfValue(value) ==
    CASE value \in {FromShop, FromShopAlt, FromBracketOnly} -> "shop.example"
      [] value = FromNews -> "news.example"
      [] value = FromPadded -> "example.com"
      [] value = FromSeveralAt -> "b"
      [] OTHER -> "unknown"

\* C23: the domain gmail_api_unsubscribe.py get_sender_info returns is the lower-cased
\* text after '@' of the email-shaped token of the first from header, and "unknown"
\* when there is no from header or the first one holds no such token.
C23_DomainOfFirstFrom ==
    CalledApiSender =>
        extracted.result[2] =
            IF FromHeaders(given_headers) = <<>>
            THEN "unknown"
            ELSE DomainOfValue(FromHeaders(given_headers)[1].value)

\* the hostname the resolver was asked for in the request being served
HostAsked == trace[CHOOSE i \in 1..Len(trace) : trace[i].op = "getaddrinfo"].host

\* C25: when the resolver reports an error or returns no address for the hostname of
\* an http/https URL, validate_unsafe_url raises a resolution-failure error naming the
\* hostname; and when it returns, it returns the very URL it was given, the resolver
\* having returned at least one address and none of them being restricted.
C25_ResolutionFailure ==
    ServingValidate =>
        /\ (Asked(trace, {"getaddrinfo"})
                /\ (AnswerGiven.gaierror \/ AnswerGiven.addrs = <<>>)) =>
            /\ outcome.raised
            /\ outcome.exc.type = "ValueError"
            /\ outcome.exc.text =
                  IF AnswerGiven.gaierror
                  THEN <<MsgResolutionFailure, HostAsked>>
                  ELSE <<MsgNoValidAddress, HostAsked>>
        /\ ~outcome.raised =>
            /\ outcome.url = invocation.link
            /\ Asked(trace, {"getaddrinfo"})
            /\ ~AnswerGiven.gaierror
            /\ AnswerGiven.addrs # <<>>
            /\ \A i \in 1..Len(AnswerGiven.addrs) : ~IsRestricted(AnswerGiven.addrs[i])

\* C25 witness: the resolver answered without error and without addresses
C25_Witness ==
    /\ ServingValidate
    /\ Asked(trace, {"getaddrinfo"})
    /\ ~AnswerGiven.gaierror
    /\ AnswerGiven.addrs = <<>>
    /\ outcome.raised
    /\ outcome.exc.text = <<MsgNoValidAddress, HostAsked>>

(***************************************************************************)
(* Claims about one scan at a time, checked under SeqScanSpec.             *)
(***************************************************************************)
\* the thread wrote "Fetching email list..." (line 183) and was then aborted: the
\* list request or a batch execution raised
AbortedByFetch(r) == pc[r] = "aborted" /\ 10 \in Range(progress_log[r])

\* C11: when the list request or a batch execution of the run raises, the run ends
\* with done=true and the failure text as error, and the results, in the state and
\* in any response to GET /results, are empty: nothing the run had aggregated shows.
C11_AbortPublishesNothing ==
    AbortedByFetch(Worker) =>
        /\ scan_status.done
        /\ scan_status.error \in {ErrHttp, ErrOther}
        /\ scan_status.error \in Range(scan_status.message.strs)
        /\ scan_results = <<>>
        /\ response.path = "/results" => response.results = <<>>

\* a batch of the run was aggregated, a later batch raised, and GET /results is served
C11_Witness ==
    /\ AbortedByFetch(Worker)
    /\ senders_data[Worker] # <<>>
    /\ processed[Worker] = batch_size
    /\ response.path = "/results"

\* the sender domains of the messages of the model
SenderDomains == {"shop.example", "news.example", "unknown"}

\* a fetched message (of at most one list-unsubscribe header) carries an http(s)
\* URL in that header
CarriesHttp(fetched) ==
    /\ ~fetched.exception
    /\ \E i \in 1..Len(fetched.headers) :
          /\ LowerName(fetched.headers[i].name) = "list-unsubscribe"
          /\ FindHttp(fetched.headers[i].value) # <<>>

\* the messages of the list that were fetched and are from domain d
FromDomain(msgs, d) ==
    {i \in 1..msgs.total :
        /\ ~MessageAt(msgs, i).exception
        /\ get_sender_info(MessageAt(msgs, i).headers)[2] = d}

WithLink(msgs, d) == {i \in FromDomain(msgs, d) : CarriesHttp(MessageAt(msgs, i))}

EntriesOf(results, d) == {k \in 1..Len(results) : results[k].domain = d}

\* C13: after a cleanly completed run, a domain with M >= 1 fetched messages that
\* carry an http(s) unsubscribe URL has exactly one entry in the published list and
\* its count is M; a domain with no such message has no entry.
C13_CountIsMessagesWithLink ==
    pc[Worker] = "done" =>
        /\ \A k \in 1..Len(scan_results) : scan_results[k].domain \in SenderDomains
        /\ \A d \in SenderDomains :
              LET M == Cardinality(WithLink(messages[Worker], d))
              IN  IF M >= 1
                  THEN /\ Cardinality(EntriesOf(scan_results, d)) = 1
                       /\ \A k \in EntriesOf(scan_results, d) : scan_results[k].count = M
                  ELSE EntriesOf(scan_results, d) = {}

\* a run completed on a list with a failed fetch and a domain of which some, but not
\* all, messages carry an http(s) URL
C13_Witness ==
    /\ pc[Worker] = "done"
    /\ \E i \in 1..messages[Worker].total : MessageAt(messages[Worker], i).exception
    /\ \E d \in SenderDomains :
          /\ Cardinality(WithLink(messages[Worker], d)) >= 2
          /\ Cardinality(WithLink(messages[Worker], d))
                < Cardinality(FromDomain(messages[Worker], d))

\* senders_data after the callback has run on the messages lo+1 .. hi whose fetch
\* did not fail: the run on the list with the failed messages removed
RECURSIVE AggregateFetched(_, _, _, _)
AggregateFetched(data, msgs, lo, hi) ==
    IF lo >= hi
    THEN data
    ELSE IF hi = lo + 1
    THEN IF MessageAt(msgs, hi).exception
         THEN data
         ELSE process_message([processed |-> 0, senders_data |-> data],
                              MessageAt(msgs, hi)).senders_data
    ELSE LET mid == (lo + hi) \div 2
             half == AggregateFetched(data, msgs, lo, mid)
         IN  IF Len(half) >= Len(data)
             THEN AggregateFetched(half, msgs, mid, hi)
             ELSE half

FailedFetches(msgs) == {i \in 1..msgs.total : MessageAt(msgs, i).exception}

\* C14: a run whose batches did not raise ends with done=true and no error, has run
\* the callback on every message, and publishes a list that the run on the same
\* messages without the failed fetches can publish.
C14_FetchErrorsSkipped ==
    (pc[Worker] = "done" /\ messages[Worker].total > 0) =>
        /\ scan_status.done
        /\ scan_status.error = None
        /\ processed[Worker] = messages[Worker].total
        /\ scan_results \in
              EntryLists(AggregateFetched(<<>>, messages[Worker], 0, messages[Worker].total))

\* a run of two batches completed with entries; a fetch of its first batch failed
\* before the last message of that batch
C14_Witness ==
    /\ pc[Worker] = "done"
    /\ messages[Worker].total > batch_size
    /\ \E i \in FailedFetches(messages[Worker]) : i < batch_size
    /\ scan_results # <<>>

\* C24: every started run of scan_emails_api eventually writes scan_status with
\* done=true and returns, whichever way it goes: credentials error, no message ids,
\* an exception in the list call or in a batch, or clean completion.
C24_RunEndsWithDone ==
    Running(Worker) ~> (~Running(Worker) /\ scan_status.done)

\* a run that fetched a full batch and was ended by an exception in a later batch
C24_Witness ==
    /\ pc[Worker] = "aborted"
    /\ processed[Worker] >= batch_size
    /\ scan_status.done
    /\ scan_status.error # None

\* the run has aggregated its messages and fixed the entries it publishes
Sorted(r) == pc[r] \in {"line262", "done"} /\ messages[r].total > 0

\* C26: the link published for a domain is a function of the scanned messages: every
\* list of entries the code can build from what the run aggregated carries, domain by
\* domain, the link the run publishes, also when a domain's messages carry several
\* distinct http(s) links.
C26_LinkDeterministic ==
    Sorted(Worker) =>
        \A other \in EntryLists(senders_data[Worker]) :
            \A i \in 1..Len(other) : other[i].link = sorted_senders[Worker][i].link

\* the place in the list of the first message counted for domain d
FirstSeen(msgs, d) ==
    CHOOSE i \in WithLink(msgs, d) : \A j \in WithLink(msgs, d) : i <= j

\* C27: the list a cleanly completed run publishes is ordered by count, descending,
\* and of two domains with the same count the one whose first counted message comes
\* earlier in the list of messages stands first.
C27_SortedByCountStable ==
    (pc[Worker] = "done" /\ messages[Worker].total > 0) =>
        \A i \in 1..Len(scan_results) : \A j \in (i + 1)..Len(scan_results) :
            /\ scan_results[i].count >= scan_results[j].count
            /\ scan_results[i].count = scan_results[j].count =>
                  FirstSeen(messages[Worker], scan_results[i].domain)
                      < FirstSeen(messages[Worker], scan_results[j].domain)

\* a published list of three domains with the same count, in the order in which the
\* domains were first counted
C27_Witness ==
    /\ pc[Worker] = "done"
    /\ Len(scan_results) = 3
    /\ scan_results[1].count = scan_results[3].count
    /\ FirstSeen(messages[Worker], scan_results[1].domain)
          < FirstSeen(messages[Worker], scan_results[2].domain)
    /\ FirstSeen(messages[Worker], scan_results[2].domain)
          < FirstSeen(messages[Worker], scan_results[3].domain)

\* the run is in its batch loop or past it
Batching(r) == pc[r] \in {"line237", "line262", "done"} /\ messages[r].total > 0

\* the batch calls that have returned: each one published one status after the three
\* statuses of lines 175, 183 and 198 (and line 273 publishes one more)
BatchCalls(r) ==
    Len(progress_log[r]) - (IF pc[r] = "done" THEN 4 ELSE 3)

\* C28: the ids of a run are requested in list order in consecutive batches of 100,
\* the last one holding what is left: after k batch calls have returned and published
\* their progress, exactly the first min(100 k, total) ids have been given to the
\* callback, each once and in list order, and the next batch starts at id 100 k; the
\* loop is left after ceil(total / 100) batch calls.
C28_ConsecutiveBatches ==
    Batching(Worker) =>
        LET total == messages[Worker].total
            k == BatchCalls(Worker)
        IN  /\ batch_start[Worker] = batch_size * k
            /\ processed[Worker] = Min(batch_size * k, total)
            /\ senders_data[Worker] =
                  AggregateFetched(<<>>, messages[Worker], 0, processed[Worker])
            /\ k <= (total + batch_size - 1) \div batch_size
            /\ pc[Worker] # "line237" => k = (total + batch_size - 1) \div batch_size

\* a run of 102 ids completed after two batch calls
C28_Witness ==
    /\ pc[Worker] = "done"
    /\ messages[Worker].total = batch_size + 2
    /\ BatchCalls(Worker) = 2
    /\ processed[Worker] = batch_size + 2

\* C29: the status published after a batch has done=false and the progress
\* 15 + floor(80 * processed / total), processed being the number of messages the
\* callback has run on; every progress a run writes lies in 0..100; and a status
\* with progress 100 has done=true.
C29_ProgressFormula ==
    /\ (pc[Worker] = "line237" /\ BatchCalls(Worker) >= 1) =>
          /\ scan_status.progress =
                15 + ((80 * processed[Worker]) \div messages[Worker].total)
          /\ scan_status.done = FALSE
    /\ \A i \in 1..Len(progress_log[Worker]) : progress_log[Worker][i] \in 0..100
    /\ scan_status.progress = 100 => scan_status.done

\* the status after the first of two batches of a run of 102 ids: 15 + floor(8000 / 102)
C29_Witness ==
    /\ pc[Worker] = "line237"
    /\ messages[Worker].total = batch_size + 2
    /\ processed[Worker] = batch_size
    /\ scan_status.progress = 93
    /\ scan_status.done = FALSE

\* the k-th of the messages counted for domain d, in list order
Counted(msgs, d, k) ==
    CHOOSE i \in WithLink(msgs, d) :
        Cardinality({j \in WithLink(msgs, d) : j < i}) = k - 1

\* C30: in the list a cleanly completed run publishes, the subjects of a domain are
\* the subjects of its first three counted messages (of all of them if they are
\* fewer), in processing order, and its from is the from value of its last counted
\* message.
C30_SubjectsAndFrom ==
    (pc[Worker] = "done" /\ messages[Worker].total > 0) =>
        \A e \in 1..Len(scan_results) :
            LET msgs == messages[Worker]
                d == scan_results[e].domain
                n == Cardinality(WithLink(msgs, d))
            IN  /\ Len(scan_results[e].subjects) = Min(3, n)
                /\ \A k \in 1..Min(3, n) :
                      scan_results[e].subjects[k] =
                          get_subject(MessageAt(msgs, Counted(msgs, d, k)).headers)
                /\ scan_results[e].from =
                      get_sender_info(MessageAt(msgs, Counted(msgs, d, n)).headers)[1]

\* a domain of more than three counted messages whose last one has another from value
\* than its first one
C30_Witness ==
    /\ pc[Worker] = "done"
    /\ \E e \in 1..Len(scan_results) :
          /\ scan_results[e].count > 3
          /\ Len(scan_results[e].subjects) = 3
          /\ scan_results[e].from = FromShopAlt
          /\ get_sender_info(MessageAt(messages[Worker],
                 Counted(messages[Worker], scan_results[e].domain, 1)).headers)[1] = FromShop

\* this step is a write of the thread to scan_status
WritesStatus(r) == Len(progress_log'[r]) = Len(progress_log[r]) + 1

\* C32: the write of a run that sets done=true is the last step of its thread, so
\* that the run writes neither scan_status nor scan_results after it; and while no
\* scan thread runs, which is the case from that write until the next scan is
\* started, no step changes scan_status or scan_results.
C32_DoneIsLastWrite ==
    [][/\ (WritesStatus(Worker) /\ scan_status'.done) => ~Running(Worker)'
       /\ ~Running(Worker) =>
             /\ scan_status' = scan_status
             /\ scan_results' = scan_results]_vars

\* a reader has been given done=true after a run that published entries
C32_Witness ==
    /\ ~Running(Worker)
    /\ response.path = "/status"
    /\ response.status.done
    /\ response.status = scan_status
    /\ scan_results # <<>>

RECURSIVE SumCounts(_)
SumCounts(results) ==
    IF results = <<>> THEN 0 ELSE Head(results).count + SumCounts(Tail(results))

\* the links found in the counted messages of domain d
LinksSeen(msgs, d) ==
    {get_unsubscribe_from_headers(MessageAt(msgs, i).headers) : i \in WithLink(msgs, d)}

\* the fetched messages that carry an http(s) unsubscribe link
AllWithLink(msgs) ==
    {i \in 1..msgs.total : CarriesHttp(MessageAt(msgs, i))}

\* C33: in the list a cleanly completed run publishes no domain stands twice, every
\* entry has a count of at least 1 and a link that starts with http and was found in
\* a message of its domain, and the counts add up to the number of fetched messages
\* that carry an http(s) unsubscribe link.
C33_PublishedListShape ==
    (pc[Worker] = "done" /\ messages[Worker].total > 0) =>
        /\ \A i \in 1..Len(scan_results) : \A j \in 1..Len(scan_results) :
              scan_results[i].domain = scan_results[j].domain => i = j
        /\ \A i \in 1..Len(scan_results) :
              /\ scan_results[i].count >= 1
              /\ StartsWithHttp(scan_results[i].link)
              /\ scan_results[i].link \in LinksSeen(messages[Worker], scan_results[i].domain)
        /\ SumCounts(scan_results) = Cardinality(AllWithLink(messages[Worker]))

\* a published list of several domains, one of them with two links seen, after a run
\* in which some messages were not counted
C33_Witness ==
    /\ pc[Worker] = "done"
    /\ Len(scan_results) >= 2
    /\ \E i \in 1..Len(scan_results) :
          Cardinality(LinksSeen(messages[Worker], scan_results[i].domain)) = 2
    /\ SumCounts(scan_results) < messages[Worker].total

(***************************************************************************)
(* Claims about overlapping scans, checked under ScanSpec.                 *)
(***************************************************************************)
\* a scan was requested after thread r was started
Superseded(r) == \E q \in Runs : q > r /\ pc[q] # "idle"

\* this step is a step of thread r
StepOf(r) ==
    \/ pc'[r] # pc[r]
    \/ batch_start'[r] # batch_start[r]
    \/ appended'[r] # appended[r]

\* C12: once a newer scan has been requested, no step of the older thread changes
\* scan_status or scan_results.
C12_StaleWritesIgnored ==
    [][\A r \in Runs :
          (Superseded(r) /\ StepOf(r)) =>
              /\ scan_status' = scan_status
              /\ scan_results' = scan_results]_vars


\* thread r has written scan_status and has not returned: it is between two of its
\* writes to the shared slots, every path to its return passing through another write
Writing(r) == Active(r) /\ progress_log[r] # <<>>

\* C31: at any moment at most one scan thread is between its writes to scan_status
\* and scan_results, whenever the POST /scan requests arrive.
C31_SingleWriter == Cardinality({r \in Runs : Writing(r)}) <= 1

=============================================================================
